---- MODULE Spec2Model ----
(***************************************************************************)
(* A model of the transcript-cleaning pipeline of zoom-cleaner:            *)
(*   - the chunker            ZoomTranscriptCleaner._chunk_transcript      *)
(*   - the context tracker    _update_context / _get_context_for_chunk     *)
(*   - the dispatcher         _process_chunks_parallel and the workers     *)
(*                            running _process_single_chunk                *)
(*   - the orchestrator       clean_transcript (dispatch, sort, assemble)  *)
(*   - the merger             merge_segments_with_overlap / find_overlap   *)
(*   - the command line       main.py                                      *)
(*                                                                         *)
(* Five specifications share the variables:                                *)
(*   SpecChunk    one call of _chunk_transcript, one loop iteration a step *)
(*   SpecTracker  record / contextFor calls run one after another          *)
(*   SpecDispatch clean_transcript calls on one cleaner: chunking, the     *)
(*                pool's workers interleaved, collection, sort, assembly,  *)
(*                quality check, and the next call                         *)
(*   SpecMerge    one call of merge_segments_with_overlap on real strings  *)
(*   SpecMain     one run of main, clean_transcript seen as one step       *)
(* A variable a specification does not follow keeps its idle value.        *)
(***************************************************************************)
EXTENDS Integers, Sequences, FiniteSets, TLC

(* ------------------------------------------------------------------ *)
(* Program constants                                                    *)
(* ------------------------------------------------------------------ *)
CHUNK_SIZE == 3000
CHUNK_OVERLAP == 500
MAX_WORKERS == 4
\* the literal 10 of `if len(self.context_memory) > 10`
MemoryCap == 10
\* the literal 3 of `range(max(0, chunk_index - 3), chunk_index)`
Lookback == 3
\* the literal 5 of `context_points[-5:]`
TailLen == 5

(* ------------------------------------------------------------------ *)
(* Bounds of the model                                                  *)
(* ------------------------------------------------------------------ *)
\* lines of an input transcript
MaxLines == 5
\* chunks a run of the chunker may emit before the model stops following it
MaxChunks == 6
\* chunk indices handed to the tracker run from 0 to MaxIndex
MaxIndex == 10
\* chunks of a dispatched transcript, any response of the language model
MaxDispatch == 3
\* chunks of a long dispatched transcript, enough to fill the tracker
NumChunksLong == 12
\* workers of the pool that are active at a time while the long transcript
\* is dispatched (the others are not scheduled), at most MAX_WORKERS
ActiveLong == 2

\* clean_transcript calls made on one ZoomTranscriptCleaner
MaxCalls == 2

\* characters of a segment handed to the merger
MaxStr == 2
\* segments of a list handed to the merger
MaxSegs == 2

\* A line is modelled by its length (a line of n characters, none of them a
\* newline).  The lengths are chosen around the two thresholds: empty lines,
\* lines several of which make up the overlap, two lines that fill a chunk
\* exactly, a line that alone exceeds the overlap, and a line longer than
\* CHUNK_SIZE.
LineLens == {0, 300, 1200, CHUNK_SIZE \div 2, 2500, CHUNK_SIZE + 1}

Max(a, b) == IF a >= b THEN a ELSE b

RECURSIVE SumSeq(_)
SumSeq(s) == IF s = <<>> THEN 0 ELSE Head(s) + SumSeq(Tail(s))

(* ------------------------------------------------------------------ *)
(* Texts.  A text is represented by the sequence of the lengths of its  *)
(* lines, i.e. by text.split('\n'); it is never empty: '' has the one   *)
(* line ''.                                                             *)
(* ------------------------------------------------------------------ *)
\* '\n'.join(ls): the text whose lines are ls; joining no line at all gives
\* '', the same text as joining the one empty line.
JoinLines(ls) == IF ls = <<>> THEN <<0>> ELSE ls

\* len(text): the characters of the lines and one newline between two lines
TextLen(text) == SumSeq(text) + (Len(text) - 1)

VARIABLES
  \* ---- _chunk_transcript ----
  lines,            \* transcript.split('\n')
  i,                \* the line cursor
  current_chunk,    \* the lines of the chunk being filled
  current_length,   \* their summed length
  chunk_index,
  chunks,           \* the list being returned
  cpc               \* "loop" while in the while loop, "done" once returned

VARIABLES
  \* ---- the context tracker ----
  context_memory,   \* self.context_memory: chunk index -> list of context points
  fixture,          \* which canned set of context points the run works with
  op                \* SpecTracker: the last tracker call and what it returned

VARIABLES
  \* ---- clean_transcript from dispatch on ----
  stage,            \* where clean_transcript is
  dchunks,          \* the chunk list given to _process_chunks_parallel
  llm,              \* the kinds of response the language model may give
  active,           \* workers of the pool that take work items at a time
  submitted,        \* chunks the submit loop has handed to the executor
  context,          \* per chunk: the context argument of its work item
  status,           \* per chunk: its work item / future / worker position
  response,         \* per chunk: the kind of response the model gave
  oldest_key,       \* per chunk: its worker's local oldest_key
  result,           \* per chunk: what _process_single_chunk returns
  out_of_order,     \* a work item has finished before one submitted earlier
  processed_chunks, \* the list _process_chunks_parallel builds and returns
  segments          \* the texts handed to merge_segments_with_overlap

VARIABLES
  \* ---- the rest of a clean_transcript call ----
  use_langchain,    \* self.use_langchain
  calls,            \* clean_transcript calls made on this cleaner so far
  recorded,         \* per chunk: the points its worker gave to _update_context
  context_at_start, \* per chunk: what contextFor(index) was when its worker started
  final_transcript, \* what _assemble_transcript returned
  qa,               \* how the final quality check ended
  outcome,          \* "running", "returned" or "raised"
  return_value      \* what clean_transcript returned

VARIABLES
  \* ---- merge_segments_with_overlap ----
  msegments,        \* the argument: the list of segments
  merged_text,      \* the text merged so far
  mpos,             \* the loop variable i (0-based index of the next segment)
  overlap,          \* what find_overlap returned in the last iteration
  args,             \* the two arguments of that find_overlap call
  mpc               \* "start", "loop", "done"

VARIABLES
  \* ---- main.py ----
  args_api_key,     \* --api-key: "absent", "empty" or "given" (the key of the command line)
  args_use_langchain, \* --use-langchain
  environ_key,      \* os.environ['OPENAI_API_KEY']: "unset", "empty", "set" (a key of
                    \* the environment) or "given" (the key of the command line)
  dotenv_key,       \* the .env file sets OPENAI_API_KEY
  settings_key,     \* config.settings.OPENAI_API_KEY, read at import
  openai_api_key,   \* openai.api_key, the credential of OpenAIProcessor's calls
  input_exists,     \* os.path.exists(args.input)
  input_readable,   \* open(args.input) and f.read() succeed
  cleaner_made,     \* ZoomTranscriptCleaner(...) has been called
  cleaning_started, \* cleaner.clean_transcript(...) has been called
  output_written,   \* the output file has been written
  exit_code,        \* -1 while the process runs
  pc                \* where main is

chunkVars == <<lines, i, current_chunk, current_length, chunk_index, chunks, cpc>>
trackVars == <<context_memory, fixture, op>>

dispVars == <<stage, dchunks, llm, active, submitted, context, status, response, oldest_key,
              result, out_of_order, processed_chunks, segments>>

runVars == <<use_langchain, calls, recorded, context_at_start, final_transcript, qa, outcome,
            return_value>>

mergeVars == <<msegments, merged_text, mpos, overlap, args, mpc>>

mainVars == <<args_api_key, args_use_langchain, environ_key, dotenv_key, settings_key,
             openai_api_key,
             input_exists, input_readable, cleaner_made, cleaning_started, output_written,
             exit_code, pc>>

vars == <<chunkVars, trackVars, dispVars, runVars, mergeVars, mainVars>>

(* ------------------------------------------------------------------ *)
(* Each specification follows one component; the variables of the      *)
(* others keep the values given here.                                   *)
(* ------------------------------------------------------------------ *)
\* self.context_memory = {}
EmptyMemory == [k \in {} |-> <<>>]

NoOp == [kind |-> "none", index |-> 0, keys_before |-> {}, context |-> "",
         after_record |-> FALSE]

\* no tracker call is being followed (the other specifications)
TrackerIdle ==
  /\ context_memory = EmptyMemory
  /\ fixture = "none"
  /\ op = NoOp

\* clean_transcript is not running (the other specifications)
DispatchIdle ==
  /\ stage = "idle"
  /\ dchunks = <<>>
  /\ llm = {}
  /\ active = 0
  /\ submitted = 0
  /\ context = <<>>
  /\ status = <<>>
  /\ response = <<>>
  /\ oldest_key = <<>>
  /\ result = <<>>
  /\ out_of_order = FALSE
  /\ processed_chunks = <<>>
  /\ segments = <<>>
  /\ use_langchain = FALSE
  /\ calls = 0
  /\ recorded = <<>>
  /\ context_at_start = <<>>
  /\ final_transcript = ""
  /\ qa = "none"
  /\ outcome = "idle"
  /\ return_value = ""

\* main is not running (the other specifications)
MainIdle ==
  /\ args_api_key = "absent"
  /\ args_use_langchain = FALSE
  /\ environ_key = "unset"
  /\ dotenv_key = "unset"
  /\ settings_key = "unset"
  /\ openai_api_key = "unset"
  /\ input_exists = FALSE
  /\ input_readable = FALSE
  /\ cleaner_made = FALSE
  /\ cleaning_started = FALSE
  /\ output_written = FALSE
  /\ exit_code = -1
  /\ pc = "idle"

\* the merger is not running (the other specifications)
MergeIdle ==
  /\ msegments = <<>>
  /\ merged_text = ""
  /\ mpos = 0
  /\ overlap = ""
  /\ args = <<"", "">>
  /\ mpc = "idle"

\* the chunker is not running (the other specifications)
ChunkIdle ==
  /\ lines = <<>>
  /\ i = 0
  /\ current_chunk = <<>>
  /\ current_length = 0
  /\ chunk_index = 0
  /\ chunks = <<>>
  /\ cpc = "idle"

(* ------------------------------------------------------------------ *)
(* The context tracker                                                  *)
(* ------------------------------------------------------------------ *)
\* The context points the language model returns for chunk k, under each
\* fixture: "pair" gives two points per chunk (three chunks give more than
\* TailLen); "mixed" gives lists of different lengths, the empty list and the
\* list holding one empty string among them; "none" gives no point at all.
Fixtures == {"pair", "mixed", "none"}

PointsOf(fx, k) ==
  CASE fx = "pair"  -> <<"a" \o ToString(k), "b" \o ToString(k)>>
    [] fx = "mixed" -> CASE k % 4 = 0 -> <<>>
                         [] k % 4 = 1 -> <<"a" \o ToString(k)>>
                         [] k % 4 = 2 -> <<"">>
                         [] OTHER     -> <<"a" \o ToString(k), "b" \o ToString(k),
                                           "c" \o ToString(k)>>
    [] OTHER        -> <<>>

\* self.context_memory[chunk_index] = context_points
Store(cm, idx, pts) ==
  [k \in (DOMAIN cm) \cup {idx} |-> IF k = idx THEN pts ELSE cm[k]]

\* len(self.context_memory) > 10
ExceedsCap(cm) == Cardinality(DOMAIN cm) > MemoryCap

\* min(self.context_memory.keys())
OldestKey_Newest(cm) == CHOOSE k \in DOMAIN cm : \A j \in DOMAIN cm : k >= j
OldestKey(cm) == CHOOSE k \in DOMAIN cm : \A j \in DOMAIN cm : k <= j

\* del self.context_memory[oldest_key], with the key present
Delete(cm, key) == [k \in (DOMAIN cm) \ {key} |-> cm[k]]

\* _update_context run from its first to its last statement
UpdateContext(cm, idx, pts) ==
  LET stored == Store(cm, idx, pts)
  IN  IF ExceedsCap(stored) THEN Delete(stored, OldestKey(stored)) ELSE stored

\* for i in range(lo, hi): if i in self.context_memory: context_points.extend(...)
RECURSIVE CollectPoints(_, _, _, _)
CollectPoints(cm, j, hi, context_points) ==
  IF j >= hi THEN context_points
  ELSE CollectPoints(cm, j + 1, hi,
                     IF j \in DOMAIN cm THEN context_points \o cm[j]
                                        ELSE context_points)

\* range(max(0, chunk_index - 3), chunk_index)
WindowStart_Wide(idx) == Max(0, idx - Lookback - 1)
WindowStart(idx) == Max(0, idx - Lookback)

\* s[-n:]
LastN(s, n) == IF Len(s) <= n THEN s ELSE SubSeq(s, Len(s) - n + 1, Len(s))

\* "\n".join(s)
RECURSIVE JoinNewline(_)
JoinNewline(s) ==
  IF s = <<>> THEN ""
  ELSE IF Len(s) = 1 THEN s[1]
  ELSE s[1] \o "\n" \o JoinNewline(Tail(s))

\* _get_context_for_chunk
GetContextForChunk(cm, idx) ==
  JoinNewline(LastN(CollectPoints(cm, WindowStart(idx), idx, <<>>), TailLen))

InitTracker ==
  /\ ChunkIdle
  /\ MergeIdle
  /\ MainIdle
  /\ DispatchIdle
  /\ context_memory = EmptyMemory
  /\ fixture \in Fixtures \ {"none"}
  /\ op = NoOp

\* record: one call of _update_context(idx, points), run to completion
Record(idx) ==
  /\ context_memory' = UpdateContext(context_memory, idx, PointsOf(fixture, idx))
  /\ op' = [kind |-> "record", index |-> idx, keys_before |-> DOMAIN context_memory,
            context |-> "", after_record |-> FALSE]
  /\ UNCHANGED fixture
  /\ UNCHANGED <<chunkVars, dispVars>>
  /\ UNCHANGED <<runVars, mergeVars, mainVars>>

\* contextFor: one call of _get_context_for_chunk(idx)
Query(idx) ==
  /\ op' = [kind |-> "query", index |-> idx, keys_before |-> {},
            context |-> GetContextForChunk(context_memory, idx),
            after_record |-> (op.kind = "record" /\ op.index = idx - 1)]
  /\ UNCHANGED <<context_memory, fixture>>
  /\ UNCHANGED <<chunkVars, dispVars>>
  /\ UNCHANGED <<runVars, mergeVars, mainVars>>

NextTracker ==
  \/ \E idx \in 0..MaxIndex : Record(idx)
  \/ \E idx \in 0..(MaxIndex + 1) : Query(idx)

SpecTracker == InitTracker /\ [][NextTracker]_vars

(* ------------------------------------------------------------------ *)
(* The chunker                                                          *)
(* ------------------------------------------------------------------ *)
\* `if current_length + line_length <= CHUNK_SIZE`
FitsInChunk_NoRunning(cl, ll) == ll <= CHUNK_SIZE
FitsInChunk(cl, ll) == cl + ll <= CHUNK_SIZE

\* `max(0, i - len(current_chunk))`
StartLine_OffByOne(pos, n) == Max(0, pos - n + 1)
StartLine(pos, n) == Max(0, pos - n)

\* `chunk_index += 1`
NextChunkIndex_Stuck(ci) == ci
NextChunkIndex(ci) == ci + 1

\* The backward walk that picks the overlap lines:
\*   j = len(current_chunk) - 1
\*   while j >= 0 and overlap_length < CHUNK_OVERLAP: insert(0, ...); j -= 1
\* j is 1-based here; the result is [lines, length].
WalkContinues_UntilNonEmpty(j, overlap_length) == j >= 1 /\ overlap_length = 0
WalkContinues(j, overlap_length) == j >= 1 /\ overlap_length < CHUNK_OVERLAP

RECURSIVE OverlapWalk(_, _, _, _)
OverlapWalk(cur, j, overlap_lines, overlap_length) ==
  IF WalkContinues(j, overlap_length)
  THEN OverlapWalk(cur, j - 1, <<cur[j]>> \o overlap_lines, overlap_length + cur[j])
  ELSE [lines |-> overlap_lines, length |-> overlap_length]

Overlap(cur) == OverlapWalk(cur, Len(cur), <<>>, 0)

ChunkRecord_EndAtLastLine(idx, cur, first, last) ==
  [index |-> idx, text |-> JoinLines(cur), start_line |-> first, end_line |-> last - 1]
ChunkRecord(idx, cur, first, last) ==
  [index |-> idx, text |-> JoinLines(cur), start_line |-> first, end_line |-> last]

\* The chunker is followed until it has emitted ChunkCap chunks.  A call
\* that returns closes at most one chunk per line, so it stays below the cap.
ChunkCap(ls) == Max(MaxChunks, Len(ls) + 1)

InitChunk ==
  /\ TrackerIdle
  /\ MergeIdle
  /\ MainIdle
  /\ DispatchIdle
  /\ lines \in UNION {[1..n -> LineLens] : n \in 1..MaxLines}
  /\ i = 0
  /\ current_chunk = <<>>
  /\ current_length = 0
  /\ chunk_index = 0
  /\ chunks = <<>>
  /\ cpc = "loop"

\* the if branch of the loop body: the line is taken into the current chunk
AppendLine ==
  /\ cpc = "loop"
  /\ i < Len(lines)
  /\ FitsInChunk(current_length, lines[i + 1])
  /\ current_chunk' = Append(current_chunk, lines[i + 1])
  /\ current_length' = current_length + lines[i + 1]
  /\ i' = i + 1
  /\ UNCHANGED <<lines, chunk_index, chunks, cpc>>
  /\ UNCHANGED <<trackVars, dispVars>>
  /\ UNCHANGED <<runVars, mergeVars, mainVars>>

\* the else branch: the current chunk is emitted and the next one is seeded
\* with the overlap; the cursor stays where it is
CloseChunk ==
  /\ cpc = "loop"
  /\ i < Len(lines)
  /\ ~FitsInChunk(current_length, lines[i + 1])
  /\ Len(chunks) < ChunkCap(lines)
  /\ chunks' = Append(chunks, ChunkRecord(chunk_index, current_chunk,
                                          StartLine(i, Len(current_chunk)), i))
  /\ current_chunk' = Overlap(current_chunk).lines
  /\ current_length' = Overlap(current_chunk).length
  /\ chunk_index' = NextChunkIndex(chunk_index)
  /\ UNCHANGED <<lines, i, cpc>>
  /\ UNCHANGED <<trackVars, dispVars>>
  /\ UNCHANGED <<runVars, mergeVars, mainVars>>

\* after the loop: the last chunk, if it holds a line, and the return
FinishChunking ==
  /\ cpc = "loop"
  /\ i >= Len(lines)
  /\ chunks' = IF current_chunk # <<>>
               THEN Append(chunks, ChunkRecord(chunk_index, current_chunk,
                                               StartLine(Len(lines), Len(current_chunk)),
                                               Len(lines)))
               ELSE chunks
  /\ cpc' = "done"
  /\ UNCHANGED <<lines, i, current_chunk, current_length, chunk_index>>
  /\ UNCHANGED <<trackVars, dispVars>>
  /\ UNCHANGED <<runVars, mergeVars, mainVars>>

NextChunk == AppendLine \/ CloseChunk \/ FinishChunking

SpecChunk == InitChunk /\ [][NextChunk]_vars

(* ------------------------------------------------------------------ *)
(* The overlap merger (utils.py).  Texts are strings.                   *)
(* ------------------------------------------------------------------ *)
\* the literal 500 of `range(min(500, min_len), 0, -1)`
OverlapSearchCap == 500

Min(a, b) == IF a <= b THEN a ELSE b

\* text[:n]
Prefix(text, n) == SubSeq(text, 1, Min(n, Len(text)))

\* text[n:]
DropPrefix(text, n) == SubSeq(text, Min(n, Len(text)) + 1, Len(text))

\* text.endswith(p)
EndsWith(text, p) ==
  /\ Len(p) <= Len(text)
  /\ SubSeq(text, Len(text) - Len(p) + 1, Len(text)) = p

\* the first length the loop of find_overlap tries: min(500, min_len)
FirstTry_OneShort(text1, text2) == Min(OverlapSearchCap, Min(Len(text1), Len(text2))) - 1
FirstTry(text1, text2) == Min(OverlapSearchCap, Min(Len(text1), Len(text2)))

\* for i in range(hi, lo - 1, -1): if text1.endswith(text2[:i]): return text2[:i]
\* return ""
\* The lengths are tried from hi down to lo and the first hit is returned;
\* the range is halved, upper half first, to keep the evaluation shallow.
RECURSIVE OverlapSearch(_, _, _, _)
OverlapSearch(text1, text2, lo, hi) ==
  IF lo > hi THEN ""
  ELSE IF lo = hi
       THEN IF EndsWith(text1, Prefix(text2, hi)) THEN Prefix(text2, hi) ELSE ""
       ELSE LET mid == (lo + hi) \div 2
                upper == OverlapSearch(text1, text2, mid + 1, hi)
            IN  IF upper # "" THEN upper ELSE OverlapSearch(text1, text2, lo, mid)

\* find_overlap
FindOverlap(text1, text2) == OverlapSearch(text1, text2, 1, FirstTry(text1, text2))

\* the characters str.strip() removes
Whitespace == {" ", "\n", "\t", "\r"}

RECURSIVE LStrip(_)
LStrip(text) ==
  IF text # "" /\ SubSeq(text, 1, 1) \in Whitespace THEN LStrip(Tail(text)) ELSE text

RECURSIVE RStrip(_)
RStrip(text) ==
  IF text # "" /\ SubSeq(text, Len(text), Len(text)) \in Whitespace
  THEN RStrip(SubSeq(text, 1, Len(text) - 1))
  ELSE text

\* text.strip()
Strip(text) == RStrip(LStrip(text))

\* if overlap: current_segment = current_segment[len(overlap):].strip()
TrimSegment_KeepOverlap(current_segment, ov) ==
  IF ov # "" THEN Strip(current_segment) ELSE current_segment
TrimSegment(current_segment, ov) ==
  IF ov # "" THEN Strip(DropPrefix(current_segment, Len(ov))) ELSE current_segment

\* merged_text += "\n\n" + current_segment
AppendSegment_OneNewline(merged, current_segment) == merged \o "\n" \o current_segment
AppendSegment(merged, current_segment) == merged \o "\n\n" \o current_segment

\* one iteration of the loop of merge_segments_with_overlap
MergeOne(merged, current_segment) ==
  AppendSegment(merged, TrimSegment(current_segment, FindOverlap(merged, current_segment)))

\* the loop from segment k (1-based) on
RECURSIVE MergeFrom(_, _, _)
MergeFrom(merged, segs, k) ==
  IF k > Len(segs) THEN merged
  ELSE MergeFrom(MergeOne(merged, segs[k]), segs, k + 1)

\* merge_segments_with_overlap
MergeSegmentsWithOverlap_FromEmpty(segs) == MergeFrom("", segs, 1)
MergeSegmentsWithOverlap(segs) ==
  IF segs = <<>> THEN "" ELSE MergeFrom(segs[1], segs, 2)

\* The segments the merger is run on: every string of up to MaxStr
\* characters over a letter that repeats, a letter that does not, and a
\* blank; texts longer than the 500 characters find_overlap looks at; and
\* the segments of test_assembly.
Alphabet == {"a", "b", " "}

RECURSIVE Strings(_)
Strings(n) ==
  IF n = 0 THEN {""}
  ELSE Strings(n - 1) \cup {t \o c : t \in Strings(n - 1), c \in Alphabet}

RECURSIVE Repeat(_, _)
Repeat(c, n) ==
  IF n = 0 THEN ""
  ELSE LET half == Repeat(c, n \div 2)
       IN  IF n % 2 = 0 THEN half \o half ELSE half \o half \o c

LongText == Repeat("a", OverlapSearchCap + 1)

SegmentLists ==
  UNION {[1..n -> Strings(MaxStr)] : n \in 0..MaxSegs}
  \cup {<<"Hello world", "world today", "today is great">>,
        <<"Hello world", "world today ", " and more ">>,
        <<LongText, LongText>>,
        <<"b" \o LongText, LongText \o "b">>,
        <<LongText, "ab">>,
        <<LongText, "b" \o LongText>>,
        <<LongText \o "ab", "ab" \o LongText>>}

InitMerge ==
  /\ MainIdle
  /\ ChunkIdle
  /\ TrackerIdle
  /\ DispatchIdle
  /\ msegments \in SegmentLists
  /\ merged_text = ""
  /\ mpos = 0
  /\ overlap = ""
  /\ args = <<"", "">>
  /\ mpc = "start"

\* if not segments: return "";  merged_text = segments[0]
MergeStart ==
  /\ mpc = "start"
  /\ IF msegments = <<>>
     THEN /\ mpc' = "done"
          /\ UNCHANGED <<merged_text, mpos>>
     ELSE /\ mpc' = "loop"
          /\ merged_text' = msegments[1]
          /\ mpos' = 1
  /\ UNCHANGED <<msegments, overlap, args>>
  /\ UNCHANGED <<chunkVars, trackVars, dispVars, runVars, mainVars>>

\* the loop body, for segments[mpos]
MergeStep ==
  /\ mpc = "loop"
  /\ mpos < Len(msegments)
  /\ args' = <<merged_text, msegments[mpos + 1]>>
  /\ overlap' = FindOverlap(merged_text, msegments[mpos + 1])
  /\ merged_text' = MergeOne(merged_text, msegments[mpos + 1])
  /\ mpos' = mpos + 1
  /\ UNCHANGED <<msegments, mpc>>
  /\ UNCHANGED <<chunkVars, trackVars, dispVars, runVars, mainVars>>

\* return merged_text
MergeReturn ==
  /\ mpc = "loop"
  /\ mpos >= Len(msegments)
  /\ mpc' = "done"
  /\ UNCHANGED <<msegments, merged_text, mpos, overlap, args>>
  /\ UNCHANGED <<chunkVars, trackVars, dispVars, runVars, mainVars>>

NextMerge == MergeStart \/ MergeStep \/ MergeReturn

SpecMerge == InitMerge /\ [][NextMerge]_vars

(* ------------------------------------------------------------------ *)
(* Dispatch, sort and assembly                                          *)
(* ------------------------------------------------------------------ *)
NoResult == [index |-> -1, processed_text |-> <<>>, speakers |-> <<>>,
             context_points |-> <<>>]

\* A text that travels through the dispatcher is kept as the sequence of
\* its lines, a line as its first characters (head) followed by a number
\* of x's (fill); Characters gives the string.
Filler == Repeat("x", CHUNK_SIZE)

LineCharacters(l) == l.head \o SubSeq(Filler, 1, l.fill)

Characters(t) == JoinNewline([m \in 1..Len(t) |-> LineCharacters(t[m])])

\* the text of one line whose characters are s
Written(s) == <<[head |-> s, fill |-> 0]>>

\* Input line j (0-based), a line of n characters: a letter of its own
\* followed by x's, so that no two lines of a transcript of up to
\* Len(Letters) lines are equal and no line is a repetition.
Letters == "abcdefghijklmnopqrstuvwxyz"

LineText(j, n) ==
  IF n = 0 THEN [head |-> "", fill |-> 0]
  ELSE [head |-> SubSeq(Letters, (j % Len(Letters)) + 1, (j % Len(Letters)) + 1),
        fill |-> n - 1]

\* chunk['text']: '\n'.join(current_chunk) for the chunk record c, which
\* holds the lengths of its lines
ChunkText(c) == [m \in 1..Len(c.text) |-> LineText(c.start_line + m - 1, c.text[m])]

\* What the language model returns for a chunk when it succeeds.
ModelOutput(chunk) ==
  [processed_text |-> Written("llm" \o ToString(chunk.index)),
   speakers |-> <<"Speaker 1">>,
   context_points |-> PointsOf(fixture, chunk.index)]

\* The kinds of answer the language model gives for a chunk:
\*   "ok"       the JSON object that was asked for
\*   "nofield"  a JSON object that lacks "processed_text"
\*   "fail"     the API call fails, or the content is not JSON
\*   "raise"    the content is JSON but not an object (a list, a number,
\*              null), and the .get of the caller raises AttributeError
\* json.loads(...) of the content, for the first two kinds
ParsedContent(chunk, kind) ==
  IF kind = "nofield"
  THEN [speakers_identified |-> ModelOutput(chunk).speakers,
        key_context_points |-> ModelOutput(chunk).context_points]
  ELSE [processed_text |-> ModelOutput(chunk).processed_text,
        speakers_identified |-> ModelOutput(chunk).speakers,
        key_context_points |-> ModelOutput(chunk).context_points]

\* d.get(key, default)
Get(d, key, default) == IF key \in DOMAIN d THEN d[key] ELSE default

\* OpenAIProcessor.correct_grammar
CorrectGrammar(chunk, kind) ==
  IF kind = "fail"
  THEN [success |-> FALSE]
  ELSE [success |-> TRUE,
        processed_text |-> Get(ParsedContent(chunk, kind), "processed_text", Written("")),
        speakers |-> Get(ParsedContent(chunk, kind), "speakers_identified", <<>>),
        context_points |-> Get(ParsedContent(chunk, kind), "key_context_points", <<>>)]

\* LangChainTranscriptCleaner.process_segment
ProcessSegment(chunk, kind) ==
  IF kind = "fail"
  THEN [success |-> FALSE]
  ELSE [success |-> TRUE, grammar_correction |-> ParsedContent(chunk, kind)]

\* _process_single_chunk from the processor's answer to the return value:
\* the model's fields on success, the chunk's own text and empty lists on
\* success = False
ProcessSingleChunk(chunk, kind, langchain) ==
  LET basic == [index |-> chunk.index, processed_text |-> ChunkText(chunk),
                speakers |-> <<>>, context_points |-> <<>>]
  IN  IF langchain
      THEN LET res == ProcessSegment(chunk, kind)
           IN  IF res.success
               THEN [index |-> chunk.index,
                     processed_text |->
                       Get(res.grammar_correction, "processed_text", ChunkText(chunk)),
                     speakers |-> Get(res.grammar_correction, "speakers_identified", <<>>),
                     context_points |->
                       Get(res.grammar_correction, "key_context_points", <<>>)]
               ELSE basic
      ELSE LET res == CorrectGrammar(chunk, kind)
           IN  IF res.success
               THEN [index |-> chunk.index, processed_text |-> res.processed_text,
                     speakers |-> res.speakers, context_points |-> res.context_points]
               ELSE basic

\* the except branch of the collecting loop
FallbackChunk_NoText(original_chunk) ==
  [index |-> original_chunk.index, processed_text |-> Written(""),
   speakers |-> <<>>, context_points |-> <<>>]
FallbackChunk(original_chunk) ==
  [index |-> original_chunk.index, processed_text |-> ChunkText(original_chunk),
   speakers |-> <<>>, context_points |-> <<>>]

\* processed_chunks.sort(key=lambda x: x['index']): a stable sort
RECURSIVE InsertByIndex(_, _)
InsertByIndex(sorted, c) ==
  IF sorted = <<>> THEN <<c>>
  ELSE IF sorted[Len(sorted)].index <= c.index THEN Append(sorted, c)
  ELSE Append(InsertByIndex(SubSeq(sorted, 1, Len(sorted) - 1), c), sorted[Len(sorted)])

RECURSIVE SortFrom(_, _)
SortFrom(sorted, rest) ==
  IF rest = <<>> THEN sorted ELSE SortFrom(InsertByIndex(sorted, Head(rest)), Tail(rest))

RECURSIVE Reversed(_)
Reversed(s) == IF s = <<>> THEN <<>> ELSE Append(Reversed(Tail(s)), Head(s))

SortByIndex_Descending(cs) == Reversed(SortFrom(<<>>, cs))
SortByIndex(cs) == SortFrom(<<>>, cs)

InRecord == {"check", "min", "del"}
Unfinished == {"queued"} \cup InRecord
Finished == {"done", "raised"}

\* The executor hands the queued work items to its idle workers in the
\* order of submission: a queued item is being run by a worker when fewer
\* than `active' items submitted before it are unfinished.
HasWorker(k) ==
  /\ status[k] = "queued"
  /\ Cardinality({j \in 1..(k - 1) : status[j] \in Unfinished}) < active

EarlierUnfinished(k) == \E j \in 1..(k - 1) : status[j] \in Unfinished

NotRecorded == [done |-> FALSE, points |-> <<>>]

\* clean_transcript is called with the given transcript
InitDispatchWith(transcript, kinds, fx, w, langchain) ==
  /\ MergeIdle
  /\ MainIdle
  /\ lines = transcript
  /\ i = 0
  /\ current_chunk = <<>>
  /\ current_length = 0
  /\ chunk_index = 0
  /\ chunks = <<>>
  /\ cpc = "loop"
  /\ context_memory = EmptyMemory
  /\ fixture = fx
  /\ op = NoOp
  /\ stage = "Chunking"
  /\ dchunks = <<>>
  /\ llm = kinds
  /\ active = w
  /\ submitted = 0
  /\ context = <<>>
  /\ status = <<>>
  /\ response = <<>>
  /\ oldest_key = <<>>
  /\ result = <<>>
  /\ out_of_order = FALSE
  /\ processed_chunks = <<>>
  /\ segments = <<>>
  /\ use_langchain = langchain
  /\ calls = 1
  /\ recorded = <<>>
  /\ context_at_start = <<>>
  /\ final_transcript = ""
  /\ qa = "none"
  /\ outcome = "running"
  /\ return_value = ""

\* ThreadPoolExecutor(max_workers=MAX_WORKERS)
PoolSize == MAX_WORKERS

\* what the language model may answer in a run
AnswerSets == {{"ok", "fail", "raise"}, {"ok", "nofield"}}

\* A transcript of m lines of 1200 characters: two lines fill a chunk, the
\* second of them is the overlap of the next one, so it has m - 1 chunks
\* (one chunk when m = 1).
EvenTranscript(m) == [k \in 1..m |-> 1200]

\* The transcripts of up to MaxDispatch chunks, the empty transcript, and a
\* transcript that is one line longer than CHUNK_SIZE.
ShortTranscripts ==
  {EvenTranscript(m) : m \in 1..(MaxDispatch + 1)} \cup {<<0>>, <<CHUNK_SIZE + 1>>}

\* a short transcript; the model may succeed, report success = False, or
\* make _process_single_chunk raise, or it may leave out the processed text
InitShort ==
  \E transcript \in ShortTranscripts : \E kinds \in AnswerSets : \E langchain \in BOOLEAN :
    InitDispatchWith(transcript, kinds, "pair", PoolSize, langchain)

\* a long transcript, of NumChunksLong chunks; the model always succeeds and
\* returns no context point, and ActiveLong of the pool's workers are
\* scheduled at a time
InitLong ==
  InitDispatchWith(EvenTranscript(NumChunksLong + 1), {"ok"}, "none",
                   IF ActiveLong < PoolSize THEN ActiveLong ELSE PoolSize, FALSE)

InitDispatch == InitShort \/ InitLong

\* Steps 1 and 2 of clean_transcript: the chunker has returned, and
\* _process_chunks_parallel is called with its chunks and opens the executor
BeginDispatch ==
  /\ stage = "Chunking"
  /\ cpc = "done"
  /\ stage' = "Dispatching"
  /\ dchunks' = chunks
  /\ context' = [k \in 1..Len(chunks) |-> ""]
  /\ status' = [k \in 1..Len(chunks) |-> "new"]
  /\ response' = [k \in 1..Len(chunks) |-> "none"]
  /\ oldest_key' = [k \in 1..Len(chunks) |-> -1]
  /\ result' = [k \in 1..Len(chunks) |-> NoResult]
  /\ recorded' = [k \in 1..Len(chunks) |-> NotRecorded]
  /\ context_at_start' = [k \in 1..Len(chunks) |-> ""]
  /\ UNCHANGED <<llm, active, submitted, out_of_order, processed_chunks, segments>>
  /\ UNCHANGED <<chunkVars, trackVars>>
  /\ UNCHANGED <<use_langchain, calls, final_transcript, qa, outcome, return_value>>
  /\ UNCHANGED <<mergeVars, mainVars>>

\* the submit loop, one chunk: the context is read here, in the main thread
Submit ==
  /\ stage = "Dispatching"
  /\ submitted < Len(dchunks)
  /\ context' = [context EXCEPT ![submitted + 1] =
                   GetContextForChunk(context_memory, dchunks[submitted + 1].index)]
  /\ status' = [status EXCEPT ![submitted + 1] = "queued"]
  /\ submitted' = submitted + 1
  /\ UNCHANGED <<stage, dchunks, llm, active, response, oldest_key, result, out_of_order,
                 processed_chunks, segments>>
  /\ UNCHANGED <<chunkVars, trackVars>>
  /\ UNCHANGED <<runVars, mergeVars, mainVars>>

\* a worker runs _process_single_chunk up to the first statement of
\* _update_context: the processor answers, the result is built and
\* self.context_memory[chunk_index] = context_points is done
Process(k, kind) ==
  /\ HasWorker(k)
  /\ kind \in llm \ {"raise"}
  /\ response' = [response EXCEPT ![k] = kind]
  /\ result' = [result EXCEPT ![k] = ProcessSingleChunk(dchunks[k], kind, use_langchain)]
  /\ context_memory' = Store(context_memory, dchunks[k].index,
                             ProcessSingleChunk(dchunks[k], kind, use_langchain).context_points)
  /\ recorded' = [recorded EXCEPT ![k] =
                    [done |-> TRUE,
                     points |-> ProcessSingleChunk(dchunks[k], kind,
                                                   use_langchain).context_points]]
  /\ context_at_start' = [context_at_start EXCEPT ![k] =
                            GetContextForChunk(context_memory, dchunks[k].index)]
  /\ status' = [status EXCEPT ![k] = "check"]
  /\ UNCHANGED <<stage, dchunks, llm, active, submitted, context, oldest_key, out_of_order,
                 processed_chunks, segments>>
  /\ UNCHANGED <<chunkVars, fixture, op>>
  /\ UNCHANGED <<use_langchain, calls, final_transcript, qa, outcome, return_value>>
  /\ UNCHANGED <<mergeVars, mainVars>>

\* the processor's answer makes _process_single_chunk raise before it
\* reaches _update_context: the future holds the exception
ProcessRaises(k) ==
  /\ HasWorker(k)
  /\ "raise" \in llm
  /\ response' = [response EXCEPT ![k] = "raise"]
  /\ status' = [status EXCEPT ![k] = "raised"]
  /\ out_of_order' = (out_of_order \/ EarlierUnfinished(k))
  /\ context_at_start' = [context_at_start EXCEPT ![k] =
                            GetContextForChunk(context_memory, dchunks[k].index)]
  /\ UNCHANGED <<stage, dchunks, llm, active, submitted, context, oldest_key, result,
                 processed_chunks, segments>>
  /\ UNCHANGED <<chunkVars, trackVars>>
  /\ UNCHANGED <<use_langchain, calls, recorded, final_transcript, qa, outcome, return_value>>
  /\ UNCHANGED <<mergeVars, mainVars>>

\* if len(self.context_memory) > 10; when it is not, the function returns
CheckLen(k) ==
  /\ status[k] = "check"
  /\ IF ExceedsCap(context_memory)
     THEN /\ status' = [status EXCEPT ![k] = "min"]
          /\ UNCHANGED out_of_order
     ELSE /\ status' = [status EXCEPT ![k] = "done"]
          /\ out_of_order' = (out_of_order \/ EarlierUnfinished(k))
  /\ UNCHANGED <<stage, dchunks, llm, active, submitted, context, response, oldest_key, result,
                 processed_chunks, segments>>
  /\ UNCHANGED <<chunkVars, trackVars>>
  /\ UNCHANGED <<runVars, mergeVars, mainVars>>

\* oldest_key = min(self.context_memory.keys())
FindOldest(k) ==
  /\ status[k] = "min"
  /\ DOMAIN context_memory # {}
  /\ oldest_key' = [oldest_key EXCEPT ![k] = OldestKey(context_memory)]
  /\ status' = [status EXCEPT ![k] = "del"]
  /\ UNCHANGED <<stage, dchunks, llm, active, submitted, context, response, result, out_of_order,
                 processed_chunks, segments>>
  /\ UNCHANGED <<chunkVars, trackVars>>
  /\ UNCHANGED <<runVars, mergeVars, mainVars>>

\* del self.context_memory[oldest_key]: a KeyError when another worker has
\* deleted the key in the meantime, and then the future holds the exception
DeleteOldest(k) ==
  /\ status[k] = "del"
  /\ IF oldest_key[k] \in DOMAIN context_memory
     THEN /\ context_memory' = Delete(context_memory, oldest_key[k])
          /\ status' = [status EXCEPT ![k] = "done"]
          /\ UNCHANGED result
     ELSE /\ status' = [status EXCEPT ![k] = "raised"]
          /\ result' = [result EXCEPT ![k] = NoResult]
          /\ UNCHANGED context_memory
  /\ oldest_key' = [oldest_key EXCEPT ![k] = -1]
  /\ out_of_order' = (out_of_order \/ EarlierUnfinished(k))
  /\ UNCHANGED <<stage, dchunks, llm, active, submitted, context, response,
                 processed_chunks, segments>>
  /\ UNCHANGED <<chunkVars, fixture, op>>
  /\ UNCHANGED <<runVars, mergeVars, mainVars>>

\* the collecting loop, one future: future.result() waits for the work item
\* and either returns its result or raises its exception
Collect ==
  /\ stage = "Dispatching"
  /\ submitted = Len(dchunks)
  /\ Len(processed_chunks) < Len(dchunks)
  /\ status[Len(processed_chunks) + 1] \in Finished
  /\ processed_chunks' =
       Append(processed_chunks,
              IF status[Len(processed_chunks) + 1] = "done"
              THEN result[Len(processed_chunks) + 1]
              ELSE FallbackChunk(dchunks[Len(processed_chunks) + 1]))
  /\ UNCHANGED <<stage, dchunks, llm, active, submitted, context, status, response, oldest_key,
                 result, out_of_order, segments>>
  /\ UNCHANGED <<chunkVars, trackVars>>
  /\ UNCHANGED <<runVars, mergeVars, mainVars>>

\* the with block is left and _process_chunks_parallel returns
ReturnProcessed ==
  /\ stage = "Dispatching"
  /\ submitted = Len(dchunks)
  /\ Len(processed_chunks) = Len(dchunks)
  /\ \A k \in 1..Len(dchunks) : status[k] \in Finished
  /\ stage' = "Sorting"
  /\ UNCHANGED <<dchunks, llm, active, submitted, context, status, response, oldest_key,
                 result, out_of_order, processed_chunks, segments>>
  /\ UNCHANGED <<chunkVars, trackVars>>
  /\ UNCHANGED <<runVars, mergeVars, mainVars>>

\* Step 3 of clean_transcript
SortChunks ==
  /\ stage = "Sorting"
  /\ processed_chunks' = SortByIndex(processed_chunks)
  /\ stage' = "Merging"
  /\ UNCHANGED <<dchunks, llm, active, submitted, context, status, response, oldest_key,
                 result, out_of_order, segments>>
  /\ UNCHANGED <<chunkVars, trackVars>>
  /\ UNCHANGED <<runVars, mergeVars, mainVars>>

\* _assemble_transcript: the processed texts, in list order, go to the merger
AssembleTranscript ==
  /\ stage = "Merging"
  /\ segments' = [k \in 1..Len(processed_chunks) |->
                  Characters(processed_chunks[k].processed_text)]
  /\ final_transcript' = MergeSegmentsWithOverlap(segments')
  /\ stage' = "QualityCheck"
  /\ UNCHANGED <<dchunks, llm, active, submitted, context, status, response, oldest_key,
                 result, out_of_order, processed_chunks>>
  /\ UNCHANGED <<chunkVars, trackVars>>
  /\ UNCHANGED <<use_langchain, calls, recorded, context_at_start, qa, outcome, return_value>>
  /\ UNCHANGED <<mergeVars, mainVars>>

\* How the final quality check can end.  LangChainTranscriptCleaner.
\* quality_check catches every exception and reports success = False;
\* OpenAIProcessor.quality_assurance catches the API error and the
\* JSONDecodeError only, so content that is JSON but not an object makes
\* parsed_content.get raise AttributeError.
QAOutcomes(langchain) == IF langchain THEN {"ok", "fail"} ELSE {"ok", "fail", "raise"}

\* Step 5 of clean_transcript and its return: the report is not looked at
FinalQA(q) ==
  /\ stage = "QualityCheck"
  /\ q \in QAOutcomes(use_langchain)
  /\ qa' = q
  /\ IF q = "raise"
     THEN /\ stage' = "Raised"
          /\ outcome' = "raised"
          /\ UNCHANGED return_value
     ELSE /\ stage' = "Done"
          /\ outcome' = "returned"
          /\ return_value' = final_transcript
  /\ UNCHANGED <<dchunks, llm, active, submitted, context, status, response, oldest_key,
                 result, out_of_order, processed_chunks, segments>>
  /\ UNCHANGED <<chunkVars, trackVars>>
  /\ UNCHANGED <<use_langchain, calls, recorded, context_at_start, final_transcript>>
  /\ UNCHANGED <<mergeVars, mainVars>>

\* The transcripts of the calls after the first: one chunk, two chunks.
LaterTranscripts == {EvenTranscript(2), EvenTranscript(3)}

\* clean_transcript has returned or raised, and it is called again on the
\* same ZoomTranscriptCleaner: the locals are new, self.context_memory is
\* what the calls before have left
CleanAgain ==
  /\ stage \in {"Done", "Raised"}
  /\ calls < MaxCalls
  /\ calls' = calls + 1
  /\ lines' \in LaterTranscripts
  /\ i' = 0
  /\ current_chunk' = <<>>
  /\ current_length' = 0
  /\ chunk_index' = 0
  /\ chunks' = <<>>
  /\ cpc' = "loop"
  /\ stage' = "Chunking"
  /\ dchunks' = <<>>
  /\ submitted' = 0
  /\ context' = <<>>
  /\ status' = <<>>
  /\ response' = <<>>
  /\ oldest_key' = <<>>
  /\ result' = <<>>
  /\ out_of_order' = FALSE
  /\ processed_chunks' = <<>>
  /\ segments' = <<>>
  /\ recorded' = <<>>
  /\ context_at_start' = <<>>
  /\ final_transcript' = ""
  /\ qa' = "none"
  /\ outcome' = "running"
  /\ return_value' = ""
  /\ UNCHANGED <<llm, active, use_langchain>>
  /\ UNCHANGED trackVars
  /\ UNCHANGED <<mergeVars, mainVars>>

NextDispatch ==
  \/ AppendLine
  \/ CloseChunk
  \/ FinishChunking
  \/ BeginDispatch
  \/ Submit
  \/ \E k \in 1..Len(dchunks) : \E kind \in llm : Process(k, kind)
  \/ \E k \in 1..Len(dchunks) : ProcessRaises(k)
  \/ \E k \in 1..Len(dchunks) : CheckLen(k)
  \/ \E k \in 1..Len(dchunks) : FindOldest(k)
  \/ \E k \in 1..Len(dchunks) : DeleteOldest(k)
  \/ Collect
  \/ ReturnProcessed
  \/ SortChunks
  \/ AssembleTranscript
  \/ \E q \in {"ok", "fail", "raise"} : FinalQA(q)
  \/ CleanAgain

SpecDispatch == InitDispatch /\ [][NextDispatch]_vars

(* ------------------------------------------------------------------ *)
(* The command line program (main.py)                                   *)
(* ------------------------------------------------------------------ *)
\* `if args.api_key:` / `if not os.environ.get('OPENAI_API_KEY'):` -- None
\* and the empty string are both false
Truthy_NotNone(v) == v \notin {"absent", "unset"}
Truthy(v) == v \notin {"absent", "unset", "empty"}

\* load_dotenv(): a variable of the .env file is set in os.environ unless
\* os.environ has the name already
LoadDotenv(env, dotenv) == IF env = "unset" THEN dotenv ELSE env

\* os.getenv("OPENAI_API_KEY", "your-api-key-here")
GetenvOrDefault(env) == IF env = "unset" THEN "default" ELSE env

InitMain ==
  /\ ChunkIdle
  /\ TrackerIdle
  /\ DispatchIdle
  /\ MergeIdle
  /\ args_api_key \in {"absent", "empty", "given"}
  /\ args_use_langchain \in BOOLEAN
  /\ environ_key \in {"unset", "empty", "set"}
  /\ dotenv_key \in {"unset", "set"}
  /\ settings_key = "unset"
  /\ openai_api_key = "unset"
  /\ input_exists \in BOOLEAN
  /\ input_readable \in BOOLEAN
  /\ input_readable => input_exists
  /\ cleaner_made = FALSE
  /\ cleaning_started = FALSE
  /\ output_written = FALSE
  /\ exit_code = -1
  /\ pc = "import"

\* sys.exit(1)
Exit1 ==
  /\ exit_code' = 1
  /\ pc' = "exited"

\* line 7: importing transcript_cleaner runs config/settings.py
ImportCleaner ==
  /\ pc = "import"
  /\ environ_key' = LoadDotenv(environ_key, dotenv_key)
  /\ settings_key' = GetenvOrDefault(LoadDotenv(environ_key, dotenv_key))
  /\ pc' = "set_key"
  /\ UNCHANGED <<args_api_key, args_use_langchain, dotenv_key, openai_api_key,
                 input_exists, input_readable, cleaner_made, cleaning_started,
                 output_written, exit_code>>
  /\ UNCHANGED <<chunkVars, trackVars, dispVars, runVars, mergeVars>>

\* lines 25-27: the key given on the command line goes to os.environ
SetApiKey ==
  /\ pc = "set_key"
  /\ environ_key' = IF Truthy(args_api_key) THEN args_api_key ELSE environ_key
  /\ pc' = "check_input"
  /\ UNCHANGED <<args_api_key, args_use_langchain, dotenv_key, settings_key,
                 openai_api_key, input_exists, input_readable, cleaner_made,
                 cleaning_started, output_written, exit_code>>
  /\ UNCHANGED <<chunkVars, trackVars, dispVars, runVars, mergeVars>>

\* lines 29-32
CheckInput ==
  /\ pc = "check_input"
  /\ IF input_exists THEN pc' = "check_key" /\ UNCHANGED exit_code ELSE Exit1
  /\ UNCHANGED <<args_api_key, args_use_langchain, environ_key, dotenv_key, settings_key,
                 openai_api_key, input_exists, input_readable, cleaner_made,
                 cleaning_started, output_written>>
  /\ UNCHANGED <<chunkVars, trackVars, dispVars, runVars, mergeVars>>

\* lines 34-37
CheckKey ==
  /\ pc = "check_key"
  /\ IF Truthy(environ_key) THEN pc' = "read" /\ UNCHANGED exit_code ELSE Exit1
  /\ UNCHANGED <<args_api_key, args_use_langchain, environ_key, dotenv_key, settings_key,
                 openai_api_key, input_exists, input_readable, cleaner_made,
                 cleaning_started, output_written>>
  /\ UNCHANGED <<chunkVars, trackVars, dispVars, runVars, mergeVars>>

\* lines 40-43; an exception goes to the handler of lines 60-62
ReadInput ==
  /\ pc = "read"
  /\ IF input_readable THEN pc' = "construct" /\ UNCHANGED exit_code ELSE Exit1
  /\ UNCHANGED <<args_api_key, args_use_langchain, environ_key, dotenv_key, settings_key,
                 openai_api_key, input_exists, input_readable, cleaner_made,
                 cleaning_started, output_written>>
  /\ UNCHANGED <<chunkVars, trackVars, dispVars, runVars, mergeVars>>

\* lines 45-47: the constructor, which first makes the OpenAIProcessor
\* (openai.api_key = OPENAI_API_KEY), returns or raises
Construct(ok) ==
  /\ pc = "construct"
  /\ cleaner_made' = TRUE
  /\ openai_api_key' = settings_key
  /\ IF ok THEN pc' = "clean" /\ UNCHANGED exit_code ELSE Exit1
  /\ UNCHANGED <<args_api_key, args_use_langchain, environ_key, dotenv_key, settings_key,
                 input_exists, input_readable, cleaning_started, output_written>>
  /\ UNCHANGED <<chunkVars, trackVars, dispVars, runVars, mergeVars>>

\* lines 49-51: clean_transcript returns or raises
Clean(ok) ==
  /\ pc = "clean"
  /\ cleaning_started' = TRUE
  /\ IF ok THEN pc' = "write" /\ UNCHANGED exit_code ELSE Exit1
  /\ UNCHANGED <<args_api_key, args_use_langchain, environ_key, dotenv_key, settings_key,
                 openai_api_key, input_exists, input_readable, cleaner_made,
                 output_written>>
  /\ UNCHANGED <<chunkVars, trackVars, dispVars, runVars, mergeVars>>

\* lines 53-58: the output is written, main returns and the process ends
\* with code 0; or open / write raises
WriteOutput(ok) ==
  /\ pc = "write"
  /\ IF ok
     THEN /\ output_written' = TRUE
          /\ exit_code' = 0
          /\ pc' = "exited"
     ELSE /\ UNCHANGED output_written
          /\ Exit1
  /\ UNCHANGED <<args_api_key, args_use_langchain, environ_key, dotenv_key, settings_key,
                 openai_api_key, input_exists, input_readable, cleaner_made,
                 cleaning_started>>
  /\ UNCHANGED <<chunkVars, trackVars, dispVars, runVars, mergeVars>>

NextMain ==
  \/ ImportCleaner
  \/ SetApiKey
  \/ CheckInput
  \/ CheckKey
  \/ ReadInput
  \/ \E ok \in BOOLEAN : Construct(ok)
  \/ \E ok \in BOOLEAN : Clean(ok)
  \/ \E ok \in BOOLEAN : WriteOutput(ok)

SpecMain == InitMain /\ [][NextMain]_vars

(* ================================================================== *)
(* Claims about the chunker (SpecChunk)                                 *)
(* ================================================================== *)
IsLineAlone(c, j) ==
  /\ c.start_line = j
  /\ c.end_line = j + 1
  /\ c.text = <<lines[j + 1]>>

\* C3: a line longer than CHUNK_SIZE is emitted alone in its own chunk, with
\* its full text, and chunking continues after it: the chunk emitted after
\* the one closed in front of such a line is that line alone, and a returned
\* chunk list holds a chunk for every such line.
C3_LongLineAlone ==
  /\ \A k \in 1..Len(chunks) : \A j \in 0..(Len(lines) - 1) :
       (lines[j + 1] > CHUNK_SIZE /\ chunks[k].end_line = j /\ k < Len(chunks))
         => IsLineAlone(chunks[k + 1], j)
  /\ cpc = "done" =>
       \A j \in 0..(Len(lines) - 1) :
         lines[j + 1] > CHUNK_SIZE => \E k \in 1..Len(chunks) : IsLineAlone(chunks[k], j)

\* C4: when _chunk_transcript returns, every chunk record carries an index
\* and the indices are 0, 1, ..., n-1 in list order.
C4_ContiguousIndices ==
  cpc = "done" =>
    \A k \in 1..Len(chunks) :
      /\ "index" \in DOMAIN chunks[k]
      /\ chunks[k].index = k - 1

C4_Witness == cpc = "done" /\ Len(chunks) >= 3

SmallestOf(keys) == CHOOSE k \in keys : \A j \in keys : k <= j

\* C7: after any sequence of record calls the tracker holds at most 10
\* indices; a record that brings the number of entries to 11 removes exactly
\* one entry, the one with the smallest index, and any other record removes
\* none.
C7_AtMostTenEvictSmallest ==
  /\ Cardinality(DOMAIN context_memory) <= 10
  /\ op.kind = "record" =>
       LET present == op.keys_before \cup {op.index}
       IN  IF Cardinality(present) = 11
           THEN DOMAIN context_memory = present \ {SmallestOf(present)}
           ELSE DOMAIN context_memory = present

C7_Witness ==
  /\ op.kind = "record"
  /\ Cardinality(op.keys_before \cup {op.index}) = 11
  /\ op.index \in DOMAIN context_memory
  /\ Cardinality(DOMAIN context_memory) = 10

\* The context the claim describes: the points of the resident keys in
\* [max(0, idx-3), idx-1], in ascending key order, the last 5 of them, joined
\* by newlines.
RECURSIVE PointsAscending(_, _)
PointsAscending(cm, keys) ==
  IF keys = {} THEN <<>>
  ELSE cm[SmallestOf(keys)] \o PointsAscending(cm, keys \ {SmallestOf(keys)})

ResidentBefore(cm, idx) ==
  {k \in DOMAIN cm : k >= 0 /\ k >= idx - 3 /\ k <= idx - 1}

LastFive(s) == [n \in 1..(IF Len(s) < 5 THEN Len(s) ELSE 5) |->
                  s[n + (IF Len(s) < 5 THEN 0 ELSE Len(s) - 5)]]

RECURSIVE NewlineJoined(_)
NewlineJoined(s) ==
  IF Len(s) = 0 THEN ""
  ELSE IF Len(s) = 1 THEN s[1]
  ELSE NewlineJoined(SubSeq(s, 1, Len(s) - 1)) \o "\n" \o s[Len(s)]

ClaimedContext(cm, idx) == NewlineJoined(LastFive(PointsAscending(cm, ResidentBefore(cm, idx))))

\* the first half of C10, which both versions share
C10_ContextIsWindowTail ==
  op.kind = "query" =>
    /\ op.context = ClaimedContext(context_memory, op.index)
    /\ (ResidentBefore(context_memory, op.index) = {} => op.context = "")

NoBlankPoint(pts) == \A n \in 1..Len(pts) : pts[n] # ""

ChunkFailed(k) == status[k] = "raised" \/ response[k] = "fail"

\* C1: whatever chunks fail, _process_chunks_parallel returns one
\* ProcessedChunk per chunk, in ascending index order, and the entry of a
\* failed chunk is {index, processed_text: the chunk's original text,
\* speakers: [], context_points: []}.
C1_OneEntryPerChunk ==
  stage = "Sorting" =>
    /\ Len(processed_chunks) = Len(dchunks)
    /\ \A k \in 1..Len(dchunks) :
         /\ processed_chunks[k].index = k - 1
         /\ ChunkFailed(k) =>
              processed_chunks[k] =
                [index |-> k - 1, processed_text |-> ChunkText(dchunks[k]),
                 speakers |-> <<>>, context_points |-> <<>>]
         /\ ~ChunkFailed(k) => processed_chunks[k] = result[k]

C1_Witness ==
  /\ stage = "Sorting"
  /\ \E k \in 1..Len(dchunks) : response[k] = "raise"
  /\ \E k \in 1..Len(dchunks) : response[k] = "fail"
  /\ \E k \in 1..Len(dchunks) : response[k] = "ok" /\ status[k] = "done"

\* C2: in every schedule the texts handed to the merger are those of the
\* chunks 0, 1, ..., n-1 in this order, whatever the order in which the
\* workers completed them.
C2_MergedInIndexOrder ==
  stage = "QualityCheck" =>
    /\ Len(segments) = Len(dchunks)
    /\ \A k \in 1..Len(segments) :
         /\ processed_chunks[k].index = k - 1
         /\ segments[k] = Characters(processed_chunks[k].processed_text)
         /\ segments[k] = IF status[k] = "done" THEN Characters(result[k].processed_text)
                          ELSE Characters(ChunkText(dchunks[k]))
    /\ \A k \in 1..(Len(segments) - 1) :
         processed_chunks[k].index < processed_chunks[k + 1].index

C2_Witness ==
  /\ stage = "QualityCheck"
  /\ out_of_order
  /\ Len(segments) >= 3
  /\ \E k \in 1..Len(dchunks) : response[k] = "ok" /\ status[k] = "done"

\* C8: the steps of a worker's record (store, size check, choice of the
\* smallest key, deletion) never overlap those of another worker's record:
\* at most one worker is between the first and the last statement of
\* _update_context.
C8_RecordsMutuallyExclusive ==
  Cardinality({k \in 1..Len(dchunks) : status[k] \in InRecord}) <= 1

\* C9: at every point of a dispatch where no record call is in progress,
\* and so once dispatch has completed, the tracker holds at most 10 entries.
C9_AtMostTenWhenNoRecordRuns ==
  (\A k \in 1..Len(dchunks) : status[k] \notin InRecord)
    => Cardinality(DOMAIN context_memory) <= 10

(* ================================================================== *)
(* Claims about the overlap merger (SpecMerge)                          *)
(* ================================================================== *)
\* the lengths n in 1..min(500, len(a), len(b)) for which the first n
\* characters of b are the last n characters of a
SharedLengths(a, b) ==
  {n \in 1..Min(500, Min(Len(a), Len(b))) :
     SubSeq(b, 1, n) = SubSeq(a, Len(a) - n + 1, Len(a))}

LargestOf(ns) == CHOOSE n \in ns : \A m \in ns : m <= n

\* C11: find_overlap(a, b) is the longest string of length between 1 and
\* min(500, len(a), len(b)) that is a prefix of b and a suffix of a, and the
\* empty string when there is none.
C11_LongestSharedBoundary ==
  mpos >= 2 =>
    IF SharedLengths(args[1], args[2]) = {}
    THEN overlap = ""
    ELSE overlap = SubSeq(args[2], 1, LargestOf(SharedLengths(args[1], args[2])))

\* find_overlap has been cut off by the 500-character limit: a longer
\* shared boundary exists
C11_Witness ==
  /\ mpos >= 2
  /\ Len(overlap) = 500
  /\ Len(args[2]) > 500
  /\ EndsWith(args[1], args[2])

\* text without its leading and trailing whitespace characters
Trimmed(text) ==
  LET solid == {n \in 1..Len(text) : SubSeq(text, n, n) \notin {" ", "\n", "\t", "\r"}}
  IN  IF solid = {} THEN ""
      ELSE SubSeq(text, CHOOSE n \in solid : \A m \in solid : n <= m,
                        CHOOSE n \in solid : \A m \in solid : n >= m)

RECURSIVE TotalLen(_)
TotalLen(segs) == IF segs = <<>> THEN 0 ELSE Len(Head(segs)) + TotalLen(Tail(segs))

\* the fold of the spec: every further segment loses its overlap prefix and
\* its surrounding whitespace, whether or not an overlap was found
RECURSIVE ClaimedMerge(_)
ClaimedMerge(segs) ==
  IF Len(segs) = 0 THEN ""
  ELSE IF Len(segs) = 1 THEN segs[1]
  ELSE LET accumulated == ClaimedMerge(SubSeq(segs, 1, Len(segs) - 1))
           segment == segs[Len(segs)]
           found == FindOverlap(accumulated, segment)
       IN  accumulated \o "\n\n" \o Trimmed(SubSeq(segment, Len(found) + 1, Len(segment)))

\* the same fold, where a segment for which no overlap was found is appended
\* as it is
RECURSIVE AmendedMerge(_)
AmendedMerge(segs) ==
  IF Len(segs) = 0 THEN ""
  ELSE IF Len(segs) = 1 THEN segs[1]
  ELSE LET accumulated == AmendedMerge(SubSeq(segs, 1, Len(segs) - 1))
           segment == segs[Len(segs)]
           found == FindOverlap(accumulated, segment)
       IN  accumulated \o "\n\n" \o
             (IF found = "" THEN segment
              ELSE Trimmed(SubSeq(segment, Len(found) + 1, Len(segment))))

\* C12 as claimed: merge([]) = "", merge([s]) = s, and every further segment
\* is appended after "\n\n" with its overlap prefix removed and its
\* surrounding whitespace stripped, whether or not an overlap was found.
C12_MergeIsClaimedFold ==
  mpc = "done" => merged_text = ClaimedMerge(msegments)

\* C12 as amended: the same fold, but the overlap prefix is removed and the
\* whitespace stripped only when find_overlap returned a non-empty overlap;
\* otherwise the segment is appended unchanged.
C12_MergeIsFold ==
  mpc = "done" => merged_text = AmendedMerge(msegments)

\* a merge of three segments: the second lost its overlap and its trailing
\* blank, the third shared nothing and kept its blanks
C12_Witness ==
  /\ mpc = "done"
  /\ Len(msegments) = 3
  /\ Len(merged_text) < TotalLen(msegments) + 4
  /\ overlap = ""
  /\ args[2] # Trimmed(args[2])
  /\ EndsWith(merged_text, "\n\n" \o args[2])

\* how many times p occurs in text as a substring
Occurrences(text, p) ==
  Cardinality({n \in 1..(Len(text) - Len(p) + 1) : SubSeq(text, n, n + Len(p) - 1) = p})

\* each segment starts with text the previous one ends with
Chained(segs) ==
  \A k \in 2..Len(segs) : SharedLengths(segs[k - 1], segs[k]) # {}

\* C13: when each segment starts with the text the previous one ends with,
\* the merged text contains the first segment exactly once and the last
\* segment exactly once, as test_assembly expects of "Hello world" and
\* "today is great".
C13_FirstAndLastOnce ==
  (mpc = "done" /\ msegments # <<>> /\ Chained(msegments)) =>
    /\ Occurrences(merged_text, msegments[1]) = 1
    /\ Occurrences(merged_text, msegments[Len(msegments)]) = 1

(* ================================================================== *)
(* Claims about a whole clean_transcript call (SpecDispatch)            *)
(* ================================================================== *)
\* C14: the text a chunk contributes to the merge is the processed text the
\* language model returned or the chunk's original text, never an empty
\* text; an answer that cannot be parsed, or that lacks the processed-text
\* field, gives the original text of the chunk as a failed call does, on
\* the OpenAI and on the LangChain path alike.
C14_ProcessedOrOriginalText ==
  stage = "QualityCheck" =>
    \A k \in 1..Len(dchunks) :
      /\ segments[k] \in {Characters(ModelOutput(dchunks[k]).processed_text),
                          Characters(ChunkText(dchunks[k]))}
      /\ response[k] \in {"fail", "nofield", "raise"} =>
           segments[k] = Characters(ChunkText(dchunks[k]))

StageOrder == <<"Chunking", "Dispatching", "Sorting", "Merging", "QualityCheck", "Done">>

FollowsInOrder(a, b) ==
  \E n \in 1..(Len(StageOrder) - 1) : StageOrder[n] = a /\ StageOrder[n + 1] = b

DispatchOver == stage \in {"Sorting", "Merging", "QualityCheck", "Done"}

\* C15: a clean_transcript call goes through Chunking, Dispatching, Sorting,
\* Merging, QualityCheck, Done in this order: it leaves a stage only for the
\* next one, and once sorting has started no chunk is still being processed
\* and every chunk has its entry.
C15_StagesInOrder ==
  /\ [][(stage' # stage /\ calls' = calls) => FollowsInOrder(stage, stage')]_vars
  /\ [](DispatchOver =>
          /\ \A k \in 1..Len(dchunks) : status[k] \in Finished
          /\ Len(processed_chunks) = Len(dchunks))

\* C16: when the final quality check fails, clean_transcript still returns
\* the merged transcript of the Merging stage, unchanged, as it does when
\* the check succeeds.
C16_MergedTranscriptReturned ==
  qa # "none" =>
    /\ outcome = "returned"
    /\ return_value = final_transcript
    /\ final_transcript = MergeSegmentsWithOverlap(segments)

C18_EveryChunkRecorded ==
  DispatchOver =>
    \A k \in 1..Len(dchunks) :
      /\ recorded[k].done
      /\ recorded[k].points = processed_chunks[k].context_points
      /\ ChunkFailed(k) => recorded[k].points = <<>>

\* C19: the context the language model gets for chunk i is contextFor(i) as
\* it is when a worker starts on the chunk, not a value read earlier, when
\* the chunk was submitted.
C19_ContextReadAtStart ==
  \A k \in 1..Len(dchunks) :
    response[k] # "none" => context[k] = context_at_start[k]

(* ================================================================== *)
(* Claims about the command line program (SpecMain)                     *)
(* ================================================================== *)
\* a credential is available: a non-empty key on the command line or a
\* non-empty OPENAI_API_KEY in the environment
CredentialAvailable == args_api_key = "given" \/ environ_key \in {"set", "given"}

\* C20: when the input file does not exist or no credential is available,
\* main exits with code 1 before any pipeline work: the cleaner is never
\* constructed, clean_transcript is never called, the output file is never
\* written, and the only way the process ends is exit code 1.
C20_FatalInputBeforePipeline ==
  (pc \notin {"import", "set_key"} /\ (~input_exists \/ ~CredentialAvailable)) =>
    /\ ~cleaner_made
    /\ ~cleaning_started
    /\ ~output_written
    /\ pc \in {"check_input", "check_key", "exited"}
    /\ pc = "exited" => exit_code = 1

\* main has exited with code 1 at the credential check: the input file
\* exists and can be read, the environment holds an empty OPENAI_API_KEY
C20_Witness ==
  /\ pc = "exited"
  /\ exit_code = 1
  /\ input_exists /\ input_readable
  /\ environ_key = "empty"
  /\ ~cleaner_made

(* ================================================================== *)
(* More claims about the chunker (SpecChunk)                            *)
(* ================================================================== *)
\* C21: _chunk_transcript terminates: every chunk that is closed is followed
\* by a chunk that takes at least one line not yet consumed, so the line
\* range of a chunk always ends beyond the range of the chunk before it.
C21_EveryChunkConsumesALine ==
  \A k \in 1..(Len(chunks) - 1) : chunks[k + 1].end_line > chunks[k].end_line

\* the last n lines of ls
SuffixOf(ls, n) == SubSeq(ls, Len(ls) - n + 1, Len(ls))

\* the shortest suffix of ls whose lengths add up to CHUNK_OVERLAP or more,
\* all of ls when there is none
ShortestOverlapSuffix(ls) ==
  LET enough == {n \in 1..Len(ls) : SumSeq(SuffixOf(ls, n)) >= CHUNK_OVERLAP}
  IN  IF enough = {} THEN ls ELSE SuffixOf(ls, SmallestOf(enough))

\* the lines of an emitted chunk (a chunk closed while empty has none)
ChunkLines(c) == IF c.start_line = c.end_line THEN <<>> ELSE c.text

\* C22: each emitted chunk after the first begins with the shortest suffix
\* of the lines of the chunk before it whose lengths add up to CHUNK_OVERLAP
\* or more (with all its lines when they add up to less), in the original
\* order: the same lines, starting at the line index where that suffix
\* starts.
C22_NextChunkBeginsWithOverlap ==
  \A k \in 1..(Len(chunks) - 1) :
    LET ov == ShortestOverlapSuffix(ChunkLines(chunks[k]))
        nxt == ChunkLines(chunks[k + 1])
    IN  /\ Len(nxt) >= Len(ov)
        /\ SubSeq(nxt, 1, Len(ov)) = ov
        /\ chunks[k + 1].start_line = chunks[k].end_line - Len(ov)

\* the chunker has returned two chunks, the first with more lines than its
\* overlap, the overlap of two lines, the second with a line of its own
C22_Witness ==
  /\ cpc = "done"
  /\ Len(chunks) >= 2
  /\ Len(ShortestOverlapSuffix(chunks[1].text)) = 2
  /\ Len(chunks[1].text) > 2
  /\ Len(chunks[2].text) > 2

\* C27: the text of every emitted chunk is the input lines start_line ..
\* end_line - 1 joined by newlines, and that range lies within the input.
C27_TextIsItsLineRange ==
  \A k \in 1..Len(chunks) :
    /\ 0 <= chunks[k].start_line
    /\ chunks[k].start_line <= chunks[k].end_line
    /\ chunks[k].end_line <= Len(lines)
    /\ chunks[k].text = JoinLines(SubSeq(lines, chunks[k].start_line + 1, chunks[k].end_line))

\* the chunker has returned a chunk of several lines that does not start at
\* the first line of the input
C27_Witness ==
  /\ cpc = "done"
  /\ \E k \in 1..Len(chunks) :
       /\ chunks[k].start_line > 0
       /\ chunks[k].end_line - chunks[k].start_line >= 2
       /\ chunks[k].end_line < Len(lines)

(* ================================================================== *)
(* More claims about a clean_transcript call (SpecDispatch)             *)
(* ================================================================== *)
\* every chunk came back as its own text: the model failed on all of them
Unchanged ==
  /\ Len(segments) = Len(dchunks)
  /\ \A k \in 1..Len(segments) : segments[k] = Characters(ChunkText(dchunks[k]))

\* C23: when every chunk is returned unchanged, the overlap the chunker put
\* at the start of each chunk is found and removed by the merger, so no
\* line of the input appears twice in the text clean_transcript returns.
C23_NoLineTwiceWhenUnchanged ==
  (outcome = "returned" /\ Unchanged) =>
    \A j \in 0..(Len(lines) - 1) :
      lines[j + 1] > 0 => Occurrences(return_value, LineCharacters(LineText(j, lines[j + 1]))) <= 1

\* C24: a chunk the language model answered with success is collected with
\* the model's processed text, whatever the other workers do in
\* _update_context at the same time.
C24_SuccessKeepsModelText ==
  \A k \in 1..Len(dchunks) : \A m \in 1..Len(processed_chunks) :
    (response[k] = "ok" /\ processed_chunks[m].index = dchunks[k].index)
      => processed_chunks[m].processed_text = ModelOutput(dchunks[k]).processed_text

(* ================================================================== *)
(* More claims about the context tracker (SpecTracker)                  *)
(* ================================================================== *)
\* C25: right after record(idx, points) has returned, the tracker holds the
\* entry idx -> points; the record does not evict the entry it has written.
C25_RecordKeepsItsEntry ==
  op.kind = "record" =>
    /\ op.index \in DOMAIN context_memory
    /\ context_memory[op.index] = PointsOf(fixture, op.index)

(* ================================================================== *)
(* Claims about several calls on one cleaner (SpecDispatch)             *)
(* ================================================================== *)
\* the chunks of this call that have recorded their points and whose index
\* is one that contextFor(dchunks[k].index) looks at
OwnWindow(k) ==
  {m \in 1..Len(dchunks) :
     /\ recorded[m].done
     /\ dchunks[m].index >= WindowStart(dchunks[k].index)
     /\ dchunks[m].index < dchunks[k].index}

\* a tracker that holds what the chunks in S have recorded, nothing else
MemoryOf(S) ==
  [idx \in {dchunks[m].index : m \in S} |->
     recorded[CHOOSE m \in S : dchunks[m].index = idx].points]

\* C26: the context given to a chunk is made of points recorded by chunks
\* of the same clean_transcript call only: it is what contextFor gives on a
\* tracker that holds records of this call and nothing from a call before.
C26_ContextFromThisCallOnly ==
  \A k \in 1..Len(dchunks) :
    status[k] # "new" =>
      \E S \in SUBSET OwnWindow(k) :
        context[k] = GetContextForChunk(MemoryOf(S), dchunks[k].index)

(* ================================================================== *)
(* More claims about the command line program (SpecMain)                *)
(* ================================================================== *)
\* C28: when main is started with --api-key KEY, the credential of the
\* OpenAIProcessor of the run is KEY: the configuration value it takes was
\* read after the key of the command line was put in the environment.
C28_ProcessorUsesGivenKey ==
  (args_api_key = "given" /\ cleaner_made) => openai_api_key = "given"

====
